---- MODULE Spec2Model ----
(***************************************************************************)
(* Model of refact_self_hosting/routers.py: the three endpoint handlers    *)
(* (CompletionRouter._completion, ContrastRouter._contrast,                *)
(* ChatRouter._chat) and the two response generators (inference_streamer,  *)
(* chat_delta_streamer) that adapt the backend's snapshot sequence.        *)
(*                                                                         *)
(* Python values are modelled as follows.                                  *)
(*   - a text (generated content) is a sequence of characters;             *)
(*   - a dict is a function whose domain is its set of keys (a record);    *)
(*   - an output str is a sequence of pieces, "+" is \o, "" is <<>>;       *)
(*     a piece is a literal (Lit) or the JSON text of a value (JsonDumps); *)
(*   - None, where a str may also stand, is the string NoneStr; the None   *)
(*     a backend yields instead of a snapshot is the record None.          *)
(***************************************************************************)
EXTENDS Integers, Sequences, FiniteSets, TLC

VARIABLES
    inference,    \* the backend's attributes read by the handlers
    handler,      \* which endpoint handled the call ("none" before the call)
    post,         \* the handler's input object, as the handler left it
    request,      \* the canonical request built by the handler
    answer,       \* what the handler returned or raised
    pc,           \* position of the response generator
    data_str,     \* inference_streamer: the latest serialization
    seen,         \* chat_delta_streamer: index -> content recorded
    out,          \* chunks the generator has yielded, in order
    recv,         \* snapshots the backend has delivered, in order
    backend,      \* state of the sequence returned by inference.infer
    infer_args,   \* arguments of every inference.infer call, in order
    signal,       \* the exception thrown into the generator, if any
    outcome,      \* how the generator finished
    streams       \* chat_delta_streamer instances running side by side

vars == <<inference, handler, post, request, answer, pc, data_str, seen,
          out, recv, backend, infer_args, signal, outcome, streams>>

routerVars == <<inference, handler, post, request, answer>>

(***************************************************************************)
(* Bounds and input domains                                                *)
(***************************************************************************)
\* most snapshots (None included) one backend sequence delivers
MaxSnaps == 3

NoneStr == "<None>"

None == [none |-> TRUE]

Indices == {0, 1}

Contents == {<<"a">>, <<"a", "b">>, <<"b">>}

\* a choice with its cumulative content, or without the "content" key
Choices ==
    [index : Indices, content : Contents] \cup [index : Indices]

\* choice lists of one snapshot: one choice, or both indices in either order
ChoiceLists ==
    {<<c>> : c \in Choices}
    \cup {<<c, d>> : c \in [index : {0}, content : {<<"a">>, <<"a", "b">>}],
                   d \in [index : {1}, content : {<<"a">>, <<"a", "b">>}]}
    \cup {<<d, c>> : c \in [index : {0}, content : {<<"a">>, <<"a", "b">>}],
                   d \in [index : {1}, content : {<<"a">>, <<"a", "b">>}]}

\* what the backend may deliver to chat_delta_streamer in place of one snapshot
ChatSnapshots ==
    {None, [status |-> "in_progress"]} \cup {[choices |-> l] : l \in ChoiceLists}

\* what it may deliver to inference_streamer, which looks into no snapshot
CompletionSnapshots ==
    {None, [status |-> "in_progress"]}
    \cup {[choices |-> <<[index |-> 0, content |-> c]>>] : c \in {<<"a">>, <<"a", "b">>}}

(***************************************************************************)
(* Strings and serialization                                               *)
(***************************************************************************)
Lit(s) == <<[piece |-> "lit", text |-> s]>>

\* json.dumps(value): the JSON text of value, one piece of an output str
JsonDumps(value) == <<[piece |-> "json", value |-> value]>>

DataPrefix == Lit("data: ")

Newlines == Lit("\n\n")

\* "data: " + s + "\n\n"
Framed(s) == DataPrefix \o s \o Newlines

\* "data: [DONE]" + "\n\n"
DoneChunk == Lit("data: [DONE]") \o Newlines

\* Python's text[n:]
SliceFrom(text, n) == SubSeq(text, n + 1, Len(text))

\* Python's d.get(key, default)
DictGet(d, key, default) == IF key \in DOMAIN d THEN d[key] ELSE default

\* d with d[key] = value
DictSet(d, key, value) ==
    [k \in DOMAIN d \cup {key} |-> IF k = key THEN value ELSE d[k]]

\* d with key deleted
DictDel(d, key) == [k \in DOMAIN d \ {key} |-> d[k]]

EmptyDict == [k \in {} |-> <<>>]

(***************************************************************************)
(* chat_delta_streamer: the delta computation                              *)
(***************************************************************************)
\* mutant: the cumulative content stays in the outgoing choice
DeltaChoiceKeepsContent(ch, seen_map) ==
    LET idx == ch["index"]
        seen_here == DictGet(seen_map, idx, <<>>)
        content == DictGet(ch, "content", <<>>)
    IN  [ch |-> DictSet(ch, "delta", SliceFrom(content, Len(seen_here))),
         seen |-> DictSet(seen_map, idx, content)]

\* mutant: a content shorter than the recorded one does not replace it
DeltaChoiceKeepsLonger(ch, seen_map) ==
    LET idx == ch["index"]
        seen_here == DictGet(seen_map, idx, <<>>)
        content == DictGet(ch, "content", <<>>)
        with_delta == DictSet(ch, "delta", SliceFrom(content, Len(seen_here)))
    IN  [ch |-> IF "content" \in DOMAIN ch
                THEN DictDel(with_delta, "content")
                ELSE with_delta,
         seen |-> DictSet(seen_map, idx,
                          IF Len(content) >= Len(seen_here) THEN content ELSE seen_here)]

\* mutant: the cursor state is never advanced
DeltaChoiceStaleCursor(ch, seen_map) ==
    LET idx == ch["index"]
        seen_here == DictGet(seen_map, idx, <<>>)
        content == DictGet(ch, "content", <<>>)
        with_delta == DictSet(ch, "delta", SliceFrom(content, Len(seen_here)))
    IN  [ch |-> IF "content" \in DOMAIN ch
                THEN DictDel(with_delta, "content")
                ELSE with_delta,
         seen |-> seen_map]

\* the body of "for ch in response['choices']" for one choice
DeltaChoice(ch, seen_map) ==
    LET idx == ch["index"]
        seen_here == DictGet(seen_map, idx, <<>>)
        content == DictGet(ch, "content", <<>>)
        with_delta == DictSet(ch, "delta", SliceFrom(content, Len(seen_here)))
    IN  [ch |-> IF "content" \in DOMAIN ch
                THEN DictDel(with_delta, "content")
                ELSE with_delta,
         seen |-> DictSet(seen_map, idx, content)]

\* the whole loop over the choices, in the backend's order
RECURSIVE DeltaChoices(_, _)
DeltaChoices(choices, seen_map) ==
    IF choices = <<>>
    THEN [choices |-> <<>>, seen |-> seen_map]
    ELSE LET first == DeltaChoice(Head(choices), seen_map)
             rest == DeltaChoices(Tail(choices), first.seen)
         IN  [choices |-> <<first.ch>> \o rest.choices, seen |-> rest.seen]

\* the snapshot as serialized, and the cursor state after it
DeltaResponse(response, seen_map) ==
    IF "choices" \in DOMAIN response
    THEN LET r == DeltaChoices(response["choices"], seen_map)
         IN  [response |-> DictSet(response, "choices", r.choices),
              seen |-> r.seen]
    ELSE [response |-> response, seen |-> seen_map]

(***************************************************************************)
(* The endpoint handlers                                                   *)
(***************************************************************************)
\* a mapping updated by another (dict.update)
DictUpdate(d, e) ==
    [k \in DOMAIN d \cup DOMAIN e |-> IF k \in DOMAIN e THEN e[k] ELSE d[k]]

\* Python's "not d" for a dict
PyNot(d) == DOMAIN d = {}

\* Python's "d == n" for a dict d and an int n: never equal
DictEqualsInt(d, n) == FALSE

\* range of the max_tokens control after the sampling clamp
ClampMinTokens == 0

ClampMaxTokens == 3

\* post.clamp(): the clamped sampling controls (max_tokens stands for all)
Clamp(p) ==
    [max_tokens |-> IF p.max_tokens < ClampMinTokens THEN ClampMinTokens
                    ELSE IF p.max_tokens > ClampMaxTokens THEN ClampMaxTokens
                    ELSE p.max_tokens]

NoRequest == [object |-> "none"]

NoAnswer == [status |-> 0]

Accepted(body) == [status |-> 200, body |-> body]

\* raise HTTPException(status_code=401, ...) when model_name is None
NotReady(inf, loading) ==
    [status |-> 401, error |-> "not_ready",
     detail |-> IF inf.last_error = NoneStr THEN <<loading>> ELSE <<inf.last_error>>]

Mismatch(p, inf) ==
    [status |-> 401, error |-> "model_mismatch",
     detail |-> <<"requested model", p.model, "doesn't match server model", inf.model_name>>]

UnknownModel(inf) ==
    [status |-> 401, error |-> "unknown_model",
     detail |-> <<"unknown model", inf.model_name>>]

ChatUnavailable(inf) ==
    [status |-> 401, error |-> "chat_unavailable",
     detail |-> <<"chat is not available for", inf.model_name, "model">>]

InvalidInput(what) == [status |-> 400, error |-> what]

\* CompletionRouter._completion: the request it builds (routers.py 133-142)
CompletionRequest(p) ==
    DictUpdate(Clamp(p),
               [object |-> "text_completion_req", model |-> p.model,
                stream |-> p.stream])

\* CompletionRouter._completion: what it returns or raises (routers.py 143-163)
CompletionAnswer(p, inf) ==
    IF inf.model_name = NoneStr
    THEN NotReady(inf, "model is loading")
    ELSE IF p.model # "" /\ p.model # "CONTRASTcode" /\ inf.model_name # p.model
    THEN Mismatch(p, inf)
    ELSE IF ~DictEqualsInt(inf.model_dict, 0)
    THEN UnknownModel(inf)
    ELSE Accepted("inference_streamer")

\* mutant: a cursor at the end of the file counts as beyond it
ContrastCursorErrorStrict(p) ==
    IF p.function # "diff-anywhere"
    THEN IF p.cursor_file \notin DOMAIN p.sources
         THEN "cursor_file_not_in_sources"
         ELSE IF p.cursor0 < 0 \/ p.cursor1 < 0
         THEN "cursor_negative"
         ELSE IF \/ p.cursor0 >= Len(p.sources[p.cursor_file])
                 \/ p.cursor1 >= Len(p.sources[p.cursor_file])
         THEN "cursor_beyond_file_length"
         ELSE "ok"
    ELSE "ok"

\* ContrastRouter._contrast: the cursor checks (routers.py 177-189)
ContrastCursorError(p) ==
    IF p.function # "diff-anywhere"
    THEN IF p.cursor_file \notin DOMAIN p.sources
         THEN "cursor_file_not_in_sources"
         ELSE IF p.cursor0 < 0 \/ p.cursor1 < 0
         THEN "cursor_negative"
         ELSE IF \/ p.cursor0 > Len(p.sources[p.cursor_file])
                 \/ p.cursor1 > Len(p.sources[p.cursor_file])
         THEN "cursor_beyond_file_length"
         ELSE "ok"
    ELSE "ok"

\* mutant: the cursors are reset but cursor_file is kept
ContrastSentinelsKeepFile(p) ==
    IF p.function # "diff-anywhere"
    THEN p
    ELSE [p EXCEPT !.cursor0 = -1, !.cursor1 = -1]

\* ContrastRouter._contrast: post after the else branch (routers.py 190-193)
ContrastSentinels(p) ==
    IF p.function # "diff-anywhere"
    THEN p
    ELSE [p EXCEPT !.cursor0 = -1, !.cursor1 = -1, !.cursor_file = ""]

\* mutant: the highlight override is missing
ContrastHighlightKept(p) == p

\* ContrastRouter._contrast: post after the highlight override (routers.py 194-195)
ContrastHighlight(p) ==
    IF p.function = "highlight" THEN [p EXCEPT !.max_tokens = 1] ELSE p

\* ContrastRouter._contrast: the request it builds (routers.py 196-210)
ContrastRequest(p) ==
    LET q == ContrastHighlight(ContrastSentinels(p))
    IN  DictUpdate(Clamp(q),
                   [object |-> "diff_completion_req", model |-> q.model,
                    sources |-> q.sources, cursor_file |-> q.cursor_file,
                    cursor0 |-> q.cursor0, cursor1 |-> q.cursor1,
                    function |-> q.function, stream |-> q.stream])

\* ContrastRouter._contrast: the readiness checks (routers.py 211-228)
ContrastReadiness(p, inf) ==
    IF inf.model_name = NoneStr
    THEN NotReady(inf, "model loading")
    ELSE IF p.model # "" /\ p.model # "CONTRASTcode" /\ inf.model_name # p.model
    THEN Mismatch(p, inf)
    ELSE IF PyNot(inf.model_dict)
    THEN UnknownModel(inf)
    ELSE Accepted("inference_streamer")

\* ChatRouter._chat: the request it builds (routers.py 244-252)
ChatRequest(p) ==
    DictUpdate(Clamp(p),
               [object |-> "chat_completion_req", model |-> p.model,
                messages |-> p.messages, stream |-> TRUE])

\* mutant: the model name is compared before the chat capability is tested
ChatAnswerMismatchFirst(p, inf) ==
    IF inf.model_name = NoneStr
    THEN NotReady(inf, "model loading")
    ELSE IF p.model # "" /\ inf.model_name # p.model
    THEN Mismatch(p, inf)
    ELSE IF ~inf.chat_is_available
    THEN ChatUnavailable(inf)
    ELSE IF PyNot(inf.model_dict)
    THEN UnknownModel(inf)
    ELSE Accepted("chat_delta_streamer")

\* ChatRouter._chat: what it returns or raises (routers.py 253-270)
ChatAnswer(p, inf) ==
    IF inf.model_name = NoneStr
    THEN NotReady(inf, "model loading")
    ELSE IF ~inf.chat_is_available
    THEN ChatUnavailable(inf)
    ELSE IF p.model # "" /\ inf.model_name # p.model
    THEN Mismatch(p, inf)
    ELSE IF PyNot(inf.model_dict)
    THEN UnknownModel(inf)
    ELSE Accepted("chat_delta_streamer")

\* the generator object exists once a StreamingResponse was returned
GeneratorOf(a) == IF a.status = 200 THEN "created" ELSE "none"

genVars == <<data_str, seen, out, recv, backend, infer_args, signal, outcome>>

\* POST /v1/completions
Completion(p) ==
    /\ handler = "none"
    /\ handler' = "completion"
    /\ post' = p
    /\ request' = CompletionRequest(p)
    /\ answer' = CompletionAnswer(p, inference)
    /\ pc' = GeneratorOf(answer')
    /\ UNCHANGED <<inference, genVars, streams>>

\* POST /v1/contrast
Contrast(p) ==
    /\ handler = "none"
    /\ handler' = "contrast"
    /\ post' = p
    /\ IF ContrastCursorError(p) # "ok"
       THEN /\ request' = NoRequest
            /\ answer' = InvalidInput(ContrastCursorError(p))
       ELSE /\ request' = ContrastRequest(p)
            /\ answer' = ContrastReadiness(p, inference)
    /\ pc' = GeneratorOf(answer')
    /\ UNCHANGED <<inference, genVars, streams>>

\* POST /v1/chat
Chat(p) ==
    /\ handler = "none"
    /\ handler' = "chat"
    /\ post' = p
    /\ request' = ChatRequest(p)
    /\ answer' = ChatAnswer(p, inference)
    /\ pc' = GeneratorOf(answer')
    /\ UNCHANGED <<inference, genVars, streams>>

(***************************************************************************)
(* The response generators, one action per step between suspension points  *)
(***************************************************************************)
\* mutant: a None is serialized like a snapshot
SkipNever(response) == FALSE

\* "if response is None: continue" (routers.py 30-31, 53-54)
SkipSnapshot(response) == response = None

\* mutant: the frame is added whatever the stream flag
PlainChunkFramed(stream, response) == Framed(JsonDumps(response))

\* inference_streamer: data_str after a snapshot (routers.py 32-34)
PlainChunk(stream, response) ==
    IF stream THEN Framed(JsonDumps(response)) ELSE JsonDumps(response)

\* mutant: the terminal marker is emitted whatever the stream flag
PlainFinalMarker(stream, data) == DoneChunk

\* inference_streamer: the chunk after the loop (routers.py 37-40)
PlainFinal(stream, data) == IF stream THEN DoneChunk ELSE data

IsPlain == answer.status = 200 /\ answer.body = "inference_streamer"

IsChat == answer.status = 200 /\ answer.body = "chat_delta_streamer"

\* mutant: the backend is asked once to probe it and once more to iterate
PlainStartProbes ==
    /\ IsPlain /\ pc = "created"
    /\ data_str' = <<>>
    /\ infer_args' = infer_args \o <<[request |-> request, stream |-> FALSE],
                                     [request |-> request, stream |-> request.stream]>>
    /\ backend' = "open"
    /\ pc' = "await_next"
    /\ UNCHANGED <<routerVars, streams, seen, out, recv, signal, outcome>>

\* inference_streamer up to its first suspension (routers.py 26-29)
PlainStart ==
    /\ IsPlain /\ pc = "created"
    /\ data_str' = <<>>
    /\ infer_args' = Append(infer_args, [request |-> request, stream |-> request.stream])
    /\ backend' = "open"
    /\ pc' = "await_next"
    /\ UNCHANGED <<routerVars, streams, seen, out, recv, signal, outcome>>

\* chat_delta_streamer up to its first suspension (routers.py 50-52)
ChatStart ==
    /\ IsChat /\ pc = "created"
    /\ seen' = EmptyDict
    /\ infer_args' = Append(infer_args, [request |-> request, stream |-> TRUE])
    /\ backend' = "open"
    /\ pc' = "await_next"
    /\ UNCHANGED <<routerVars, streams, data_str, out, recv, signal, outcome>>

\* inference_streamer receives one item from the backend (routers.py 29-36)
PlainSnapshot(response) ==
    /\ IsPlain /\ pc = "await_next" /\ backend = "open"
    /\ Len(recv) < MaxSnaps
    /\ recv' = Append(recv, response)
    /\ IF SkipSnapshot(response)
       THEN UNCHANGED <<data_str, out, pc>>
       ELSE /\ data_str' = PlainChunk(request.stream, response)
            /\ IF request.stream
               THEN out' = Append(out, data_str') /\ pc' = "yield_data"
               ELSE out' = out /\ pc' = "sleep"
    /\ UNCHANGED <<routerVars, streams, seen, backend, infer_args, signal, outcome>>

\* inference_streamer sees the backend sequence end (routers.py 37-40)
PlainEnd ==
    /\ IsPlain /\ pc = "await_next" /\ backend = "open"
    /\ backend' = "exhausted"
    /\ out' = Append(out, PlainFinal(request.stream, data_str))
    /\ pc' = "yield_final"
    /\ UNCHANGED <<routerVars, streams, data_str, seen, recv, infer_args, signal, outcome>>

\* chat_delta_streamer receives one item from the backend (routers.py 52-66)
ChatSnapshot(response) ==
    /\ IsChat /\ pc = "await_next" /\ backend = "open"
    /\ Len(recv) < MaxSnaps
    /\ recv' = Append(recv, response)
    /\ IF SkipSnapshot(response)
       THEN UNCHANGED <<seen, out, pc>>
       ELSE LET d == DeltaResponse(response, seen)
            IN  /\ seen' = d.seen
                /\ out' = Append(out, Framed(JsonDumps(d.response)))
                /\ pc' = "yield_data"
    /\ UNCHANGED <<routerVars, streams, data_str, backend, infer_args, signal, outcome>>

\* mutant: the terminal marker follows only a response that emitted a chunk
ChatEndMarkerAfterData ==
    /\ IsChat /\ pc = "await_next" /\ backend = "open"
    /\ backend' = "exhausted"
    /\ out' = IF out = <<>> THEN out ELSE Append(out, DoneChunk)
    /\ pc' = IF out = <<>> THEN "done" ELSE "yield_final"
    /\ outcome' = IF out = <<>> THEN "returned" ELSE outcome
    /\ UNCHANGED <<routerVars, streams, data_str, seen, recv, infer_args, signal>>

\* chat_delta_streamer sees the backend sequence end (routers.py 67)
ChatEnd ==
    /\ IsChat /\ pc = "await_next" /\ backend = "open"
    /\ backend' = "exhausted"
    /\ out' = Append(out, DoneChunk)
    /\ pc' = "yield_final"
    /\ UNCHANGED <<routerVars, streams, data_str, seen, recv, infer_args, signal, outcome>>

\* the consumer asks for the next chunk: the generator leaves its yield
Resume ==
    /\ pc \in {"yield_data", "yield_final"}
    /\ pc' = IF pc = "yield_data" THEN "sleep" ELSE "done"
    /\ outcome' = IF pc = "yield_data" THEN outcome ELSE "returned"
    /\ UNCHANGED <<routerVars, streams, data_str, seen, out, recv, backend, infer_args, signal>>

\* asyncio.sleep(0) returns (routers.py 36, 66)
SleepReturn ==
    /\ pc = "sleep"
    /\ pc' = "await_next"
    /\ UNCHANGED <<routerVars, streams, data_str, seen, out, recv, backend, infer_args, signal, outcome>>

\* mutant: the terminal marker is emitted on the cancellation path too
CancelEmitsMarker ==
    /\ pc \in {"await_next", "sleep"}
    /\ signal' = "CancelledError"
    /\ out' = Append(out, DoneChunk)
    /\ pc' = "yield_final"
    /\ backend' = IF pc = "await_next" THEN "cancelled" ELSE backend
    /\ UNCHANGED <<routerVars, streams, data_str, seen, recv, infer_args, outcome>>

\* CancelledError is raised at the await the generator is suspended in and
\* caught by "except asyncio.CancelledError": the generator logs and returns
\* (routers.py 42-43, 68-69)
Cancel ==
    /\ pc \in {"await_next", "sleep"}
    /\ signal' = "CancelledError"
    /\ pc' = "done"
    /\ outcome' = "returned"
    /\ backend' = IF pc = "await_next" THEN "cancelled" ELSE backend
    /\ UNCHANGED <<routerVars, streams, data_str, seen, out, recv, infer_args>>

\* the consumer closes the generator while it is suspended at a yield:
\* GeneratorExit is no CancelledError and leaves the generator
Close ==
    /\ pc \in {"yield_data", "yield_final"}
    /\ signal' = "GeneratorExit"
    /\ pc' = "done"
    /\ outcome' = "closed"
    /\ UNCHANGED <<routerVars, streams, data_str, seen, out, recv, backend, infer_args>>

\* mutant: the except clause catches every exception
BackendFaultCaught ==
    /\ pc = "await_next" /\ backend = "open"
    /\ backend' = "failed"
    /\ signal' = "Exception"
    /\ pc' = "done"
    /\ outcome' = "returned"
    /\ UNCHANGED <<routerVars, streams, data_str, seen, out, recv, infer_args>>

\* the backend sequence raises an error that is no CancelledError
BackendFault ==
    /\ pc = "await_next" /\ backend = "open"
    /\ backend' = "failed"
    /\ signal' = "Exception"
    /\ pc' = "done"
    /\ outcome' = "raised"
    /\ UNCHANGED <<routerVars, streams, data_str, seen, out, recv, infer_args>>

(***************************************************************************)
(* Inputs, initial states and specifications                               *)
(***************************************************************************)
\* largest cursor offset a caller sends; the file below is shorter
MaxCursor == 3

Models == {"", "CONTRASTcode", "m1", "m2"}

TokenInputs == {-1, 1, ClampMaxTokens + 1}

Sources == [k \in {"a.py"} |-> <<"x", "y">>]

Messages == <<[role |-> "user", content |-> <<"h", "i">>]>>

TextPosts == [model : Models, stream : BOOLEAN, max_tokens : TokenInputs]

DiffPosts ==
    [function : {"diff-anywhere", "highlight", "edit"},
     cursor_file : {"a.py", "b.py"},
     cursor0 : -1 .. MaxCursor, cursor1 : -1 .. MaxCursor,
     sources : {Sources},
     model : Models, stream : BOOLEAN, max_tokens : TokenInputs]

ChatPosts == [model : Models, messages : {Messages}, max_tokens : TokenInputs]

\* the backend attributes the handlers read
Inferences ==
    [model_name : {NoneStr, "m1", "CONTRASTcode"},
     last_error : {NoneStr, "out of memory"},
     model_dict : {EmptyDict, [filter_caps |-> <<"completion">>]},
     chat_is_available : BOOLEAN]

\* a backend with a model loaded that serves every mode
ReadyInference ==
    [model_name |-> "m1", last_error |-> NoneStr,
     model_dict |-> [filter_caps |-> <<"completion">>],
     chat_is_available |-> TRUE]

\* one request of each shape, for the runs that follow a response to its end
SampleTextPosts == {p \in TextPosts : p.model = "" /\ p.max_tokens = 1}

SampleDiffPosts ==
    {p \in DiffPosts : /\ p.function = "edit" /\ p.cursor_file = "a.py"
                       /\ p.cursor0 = 0 /\ p.cursor1 = 1
                       /\ p.model = "" /\ p.max_tokens = 1}

SampleChatPosts == {p \in ChatPosts : p.model = "" /\ p.max_tokens = 1}

NoPost == [model |-> NoneStr]

\* the responses served side by side, each by its own call of
\* chat_delta_streamer
Streams == {1, 2}

MaxStreamSnaps == 2

\* what a backend delivers to one of them in place of one snapshot
StreamSnapshots ==
    {None}
    \cup {[choices |-> <<[index |-> 0, content |-> c]>>] : c \in Contents}
    \cup {[choices |-> <<[index |-> 1, content |-> <<"a">>]>>]}

\* no call yet: no frame, no backend sequence
NoStream == [pc |-> "none", seen |-> EmptyDict, out |-> <<>>, recv |-> <<>>]

\* before the call: no handler has run, no generator exists
Idle(backends) ==
    /\ inference \in backends
    /\ handler = "none"
    /\ post = NoPost
    /\ request = NoRequest
    /\ answer = NoAnswer
    /\ pc = "none"
    /\ data_str = <<>>
    /\ seen = EmptyDict
    /\ out = <<>>
    /\ recv = <<>>
    /\ backend = "none"
    /\ infer_args = <<>>
    /\ signal = "none"
    /\ outcome = "none"
    /\ streams = [t \in Streams |-> NoStream]

Init == Idle({ReadyInference})

Next ==
    \/ handler = "none" /\ \E p \in SampleTextPosts : Completion(p)
    \/ handler = "none" /\ \E p \in SampleDiffPosts : Contrast(p)
    \/ handler = "none" /\ \E p \in SampleChatPosts : Chat(p)
    \/ PlainStart
    \/ ChatStart
    \/ \E response \in CompletionSnapshots : PlainSnapshot(response)
    \/ \E response \in ChatSnapshots : ChatSnapshot(response)
    \/ PlainEnd
    \/ ChatEnd
    \/ Resume
    \/ SleepReturn
    \/ Cancel
    \/ Close
    \/ BackendFault

\* one call followed from the handler to the end of its response
Spec == Init /\ [][Next]_vars

InitRouter == Idle(Inferences)

NextRouter ==
    \/ handler = "none" /\ \E p \in TextPosts : Completion(p)
    \/ handler = "none" /\ \E p \in DiffPosts : Contrast(p)
    \/ handler = "none" /\ \E p \in ChatPosts : Chat(p)
    \/ PlainStart
    \/ ChatStart

\* every call against every backend state, up to the first backend interaction
SpecRouter == InitRouter /\ [][NextRouter]_vars

(***************************************************************************)
(* Several responses at once: every call of chat_delta_streamer has its    *)
(* own frame, and the event loop runs one of them from one suspension      *)
(* point to the next                                                       *)
(***************************************************************************)
\* mutant: one cursor state, the first call's, serves every call
CursorShared(ss, t) == ss[CHOOSE u \in DOMAIN ss : \A v \in DOMAIN ss : u <= v].seen

\* the local variable seen of call t (routers.py 50)
CursorOf(ss, t) == ss[t].seen

\* a call of chat_delta_streamer up to its first suspension (routers.py 50-52)
StreamStart(t) ==
    /\ streams[t].pc \in {"none", "done"}
    /\ streams' = [streams EXCEPT ![t] =
                      [pc |-> "await_next", seen |-> EmptyDict,
                       out |-> <<>>, recv |-> <<>>]]
    /\ UNCHANGED <<routerVars, pc, genVars>>

\* call t receives one item from its backend sequence (routers.py 52-66)
StreamSnapshot(t, response) ==
    /\ streams[t].pc = "await_next"
    /\ Len(streams[t].recv) < MaxStreamSnaps
    /\ streams' =
         IF SkipSnapshot(response)
         THEN [streams EXCEPT ![t].recv = Append(@, response)]
         ELSE LET d == DeltaResponse(response, CursorOf(streams, t))
              IN  [streams EXCEPT ![t] =
                      [pc |-> "yield_data", seen |-> d.seen,
                       out |-> Append(@.out, Framed(JsonDumps(d.response))),
                       recv |-> Append(@.recv, response)]]
    /\ UNCHANGED <<routerVars, pc, genVars>>

\* call t sees its backend sequence end (routers.py 67)
StreamEnd(t) ==
    /\ streams[t].pc = "await_next"
    /\ streams' = [streams EXCEPT ![t].out = Append(@, DoneChunk),
                                  ![t].pc = "yield_final"]
    /\ UNCHANGED <<routerVars, pc, genVars>>

\* the consumer of call t asks for the next chunk (routers.py 65, 67)
StreamResume(t) ==
    /\ streams[t].pc \in {"yield_data", "yield_final"}
    /\ streams' = [streams EXCEPT ![t].pc =
                      IF @ = "yield_data" THEN "sleep" ELSE "done"]
    /\ UNCHANGED <<routerVars, pc, genVars>>

\* asyncio.sleep(0) of call t returns (routers.py 66)
StreamSleepReturn(t) ==
    /\ streams[t].pc = "sleep"
    /\ streams' = [streams EXCEPT ![t].pc = "await_next"]
    /\ UNCHANGED <<routerVars, pc, genVars>>

NextStreams ==
    \/ \E t \in Streams : StreamStart(t)
    \/ \E t \in Streams : \E r \in StreamSnapshots : StreamSnapshot(t, r)
    \/ \E t \in Streams : StreamEnd(t)
    \/ \E t \in Streams : StreamResume(t)
    \/ \E t \in Streams : StreamSleepReturn(t)

\* chat responses served side by side, in every interleaving of their steps
SpecStreams == Init /\ [][NextStreams]_vars

(***************************************************************************)
(* What a client and a backend observe, written without the operators of   *)
(* the model above                                                         *)
(***************************************************************************)
WireData(value) ==
    <<[piece |-> "lit", text |-> "data: "],
      [piece |-> "json", value |-> value],
      [piece |-> "lit", text |-> "\n\n"]>>

WireDone ==
    <<[piece |-> "lit", text |-> "data: [DONE]"],
      [piece |-> "lit", text |-> "\n\n"]>>

WireBare(value) == <<[piece |-> "json", value |-> value]>>

\* the snapshots among the delivered items
NonNone(items) == SelectSeq(items, LAMBDA r : r # [none |-> TRUE])

\* the choices a chunk carries, if it is a framed JSON document with choices
ChunkChoices(chunk) ==
    IF /\ Len(chunk) = 3
       /\ chunk[2].piece = "json"
       /\ "choices" \in DOMAIN chunk[2].value
    THEN chunk[2].value["choices"]
    ELSE <<>>

\* the deltas for index idx in a list of emitted choices, one after another
RECURSIVE DeltasOf(_, _)
DeltasOf(choices, idx) ==
    IF choices = <<>> THEN <<>>
    ELSE LET ch == Head(choices)
         IN  (IF ch["index"] = idx /\ "delta" \in DOMAIN ch
              THEN <<ch["delta"]>> ELSE <<>>)
             \o DeltasOf(Tail(choices), idx)

\* the deltas for index idx in a sequence of chunks, in emission order
RECURSIVE EmittedDeltas(_, _)
EmittedDeltas(chunks, idx) ==
    IF chunks = <<>> THEN <<>>
    ELSE DeltasOf(ChunkChoices(Head(chunks)), idx)
         \o EmittedDeltas(Tail(chunks), idx)

RECURSIVE Concat(_)
Concat(texts) == IF texts = <<>> THEN <<>> ELSE Head(texts) \o Concat(Tail(texts))

\* the cumulative contents for index idx in one snapshot's choices
RECURSIVE ContentsOf(_, _)
ContentsOf(choices, idx) ==
    IF choices = <<>> THEN <<>>
    ELSE LET ch == Head(choices)
         IN  (IF ch["index"] = idx
              THEN <<IF "content" \in DOMAIN ch THEN ch["content"] ELSE <<>> >>
              ELSE <<>>)
             \o ContentsOf(Tail(choices), idx)

\* the cumulative contents the backend reported for index idx, in order
RECURSIVE Reported(_, _)
Reported(items, idx) ==
    IF items = <<>> THEN <<>>
    ELSE (IF "choices" \in DOMAIN Head(items)
          THEN ContentsOf(Head(items)["choices"], idx) ELSE <<>>)
         \o Reported(Tail(items), idx)

IsPrefix(s, t) == Len(s) <= Len(t) /\ SubSeq(t, 1, Len(s)) = s

\* every content reported for an index extends the one reported before it
PrefixMonotone(items) ==
    \A idx \in Indices :
        LET r == Reported(items, idx)
        IN  \A i \in 1 .. Len(r) - 1 : IsPrefix(r[i], r[i + 1])

LastOr(texts, default) == IF texts = <<>> THEN default ELSE texts[Len(texts)]

NaturalEnd == backend = "exhausted"

(***************************************************************************)
(* Claims                                                                  *)
(***************************************************************************)
\* C1: delta reconstruction. In chat_delta_streamer, when the contents the
\* backend reports for each index are prefix-monotone, the deltas emitted for
\* an index, concatenated in emission order, equal the last content reported
\* for that index; this holds for each index of interleaved choices.
C1_DeltaReconstruction ==
    (IsChat /\ PrefixMonotone(recv)) =>
        \A idx \in Indices :
            Concat(EmittedDeltas(out, idx)) = LastOr(Reported(recv, idx), <<>>)

\* the response ended naturally after both indices, reported in the same
\* snapshots, each grew to "ab" in two non-empty deltas
C1_Witness ==
    /\ IsChat /\ PrefixMonotone(recv) /\ NaturalEnd /\ pc = "done"
    /\ \A idx \in Indices :
        /\ LastOr(Reported(recv, idx), <<>>) = <<"a", "b">>
        /\ EmittedDeltas(out, idx) = << <<"a">>, <<"b">> >>
    /\ \E i \in 1 .. Len(recv) :
        "choices" \in DOMAIN recv[i] /\ Len(recv[i]["choices"]) = 2

\* C2: a streaming inference_streamer whose backend sequence ended naturally
\* has emitted one "data: <json>\n\n" chunk per snapshot that is not None, in
\* arrival order, nothing for a None, and then one "data: [DONE]\n\n" chunk.
C2_StreamingChunks ==
    (IsPlain /\ request.stream /\ NaturalEnd) =>
        out = [i \in 1 .. Len(NonNone(recv)) |-> WireData(NonNone(recv)[i])]
              \o <<WireDone>>

\* a finished streaming response over a None and two different snapshots
C2_Witness ==
    /\ IsPlain /\ request.stream /\ NaturalEnd /\ pc = "done"
    /\ Len(recv) = 3 /\ Len(NonNone(recv)) = 2
    /\ NonNone(recv)[1] # NonNone(recv)[2]

\* C3: a non-streaming inference_streamer emits nothing before the backend
\* sequence ends; when it has ended naturally after at least one snapshot that
\* is not None, the whole output is one chunk, the bare JSON of the last such
\* snapshot, with no "data: " prefix and no terminal marker.
C3_NonStreamingSingleChunk ==
    (IsPlain /\ ~request.stream) =>
        /\ ~NaturalEnd => out = <<>>
        /\ (NaturalEnd /\ NonNone(recv) # <<>>) =>
              out = <<WireBare(NonNone(recv)[Len(NonNone(recv))])>>

\* a finished non-streaming response over two different snapshots and a
\* trailing None
C3_Witness ==
    /\ IsPlain /\ ~request.stream /\ NaturalEnd /\ pc = "done"
    /\ Len(recv) = 3 /\ recv[3] = [none |-> TRUE]
    /\ Len(NonNone(recv)) = 2 /\ recv[1] # recv[2]
    /\ Len(out) = 1

\* C4: whenever the backend sequence of chat_delta_streamer ends naturally,
\* the output holds exactly one "data: [DONE]\n\n" chunk and it is the last
\* one, also after zero snapshots or only None.
C4_ChatTerminalMarker ==
    (IsChat /\ NaturalEnd) =>
        /\ out # <<>>
        /\ out[Len(out)] = WireDone
        /\ Cardinality({i \in DOMAIN out : out[i] = WireDone}) = 1

\* the backend delivered only None before it ended
C4_Witness ==
    /\ IsChat /\ NaturalEnd /\ pc = "done" /\ outcome = "returned"
    /\ Len(recv) >= 2 /\ NonNone(recv) = <<>>
    /\ out = <<WireDone>>

\* C5: a cancellation that reaches either generator while it iterates the
\* backend sequence (CancelledError at an await, GeneratorExit at the yield of
\* a data chunk) ends it at once: no chunk is added, the output holds no
\* terminal marker, nothing is raised to the consumer, and a finished
\* generator never emits again.
C5_CancelStopsCleanly ==
    [][/\ (/\ pc \in {"await_next", "sleep", "yield_data"}
           /\ signal' \in {"CancelledError", "GeneratorExit"})
          => /\ out' = out
             /\ \A i \in DOMAIN out' : out'[i] # WireDone
             /\ pc' = "done"
             /\ outcome' # "raised"
       /\ pc = "done" => (out' = out /\ pc' = "done")]_vars

\* a streaming response cancelled in asyncio.sleep(0) after its second chunk
C5_Witness ==
    /\ signal = "CancelledError" /\ pc = "done"
    /\ backend = "open" /\ Len(out) = 2
    /\ outcome = "returned"

\* the error a handler raised, "none" for an accepted request
ErrorOf(a) == IF "error" \in DOMAIN a THEN a["error"] ELSE "none"

Called == handler # "none"

\* C6: in every mode, a request that passes the earlier checks is rejected
\* with "unknown model" if and only if the backend's model_dict is empty; so
\* a text completion with a loaded, matching model and a non-empty model_dict
\* is accepted and handed to inference_streamer.
C6_UnknownModelIffEmptyDict ==
    (Called /\ (answer.status = 200 \/ ErrorOf(answer) = "unknown_model")) =>
        /\ ErrorOf(answer) = "unknown_model" <=> DOMAIN inference.model_dict = {}
        /\ (handler = "completion" /\ DOMAIN inference.model_dict # {}) =>
              (answer.status = 200 /\ answer["body"] = "inference_streamer")

\* C7: in text, diff and chat mode, a request that no other check rejects
\* first (a model is loaded, the cursors are valid, chat is available) is
\* rejected with the model mismatch exactly when its model name is non-empty,
\* is not "CONTRASTcode" and differs from the loaded model_name.
C7_MismatchExactly ==
    (Called /\ answer.status # 400
            /\ ErrorOf(answer) \notin {"not_ready", "chat_unavailable"}) =>
        (ErrorOf(answer) = "model_mismatch"
            <=> /\ post.model # ""
                /\ post.model # "CONTRASTcode"
                /\ post.model # inference.model_name)

\* C8: for a diff request whose function is not "diff-anywhere" the checks run
\* in the order cursor_file in sources, both cursors >= 0, both cursors <= the
\* file length; the first one violated alone decides the 400 rejection, and a
\* request violating none (a cursor equal to the file length included) gets no
\* 400.
C8_CursorChecksInOrder ==
    (handler = "contrast" /\ post.function # "diff-anywhere") =>
        LET in_sources == post.cursor_file \in DOMAIN post.sources
            non_negative == post.cursor0 >= 0 /\ post.cursor1 >= 0
            within == /\ post.cursor0 <= Len(post.sources[post.cursor_file])
                      /\ post.cursor1 <= Len(post.sources[post.cursor_file])
        IN  IF ~in_sources
            THEN answer = [status |-> 400, error |-> "cursor_file_not_in_sources"]
            ELSE IF ~non_negative
            THEN answer = [status |-> 400, error |-> "cursor_negative"]
            ELSE IF ~within
            THEN answer = [status |-> 400, error |-> "cursor_beyond_file_length"]
            ELSE answer.status # 400

\* an edit request with one cursor at the end of the file is accepted
C8_Witness ==
    /\ handler = "contrast" /\ post.function = "edit"
    /\ post.cursor_file \in DOMAIN post.sources
    /\ post.cursor0 = 0
    /\ post.cursor1 = Len(post.sources[post.cursor_file])
    /\ answer.status = 200

\* C9: a diff request whose function is "diff-anywhere" gets no 400 whatever
\* its cursor_file and cursors, and the request built for it carries cursor0 =
\* -1, cursor1 = -1 and cursor_file = "".
C9_DiffAnywhereSentinels ==
    (handler = "contrast" /\ post.function = "diff-anywhere") =>
        /\ answer.status # 400
        /\ request.object = "diff_completion_req"
        /\ request.cursor0 = -1
        /\ request.cursor1 = -1
        /\ request.cursor_file = ""

\* accepted with a cursor_file that is no source, a negative cursor and a
\* cursor beyond every file
C9_Witness ==
    /\ handler = "contrast" /\ post.function = "diff-anywhere"
    /\ post.cursor_file \notin DOMAIN post.sources
    /\ post.cursor0 < 0
    /\ post.cursor1 > Len(post.sources["a.py"])
    /\ answer.status = 200

\* C10: a diff request whose function is "highlight" and that passes the
\* cursor checks gets a request whose max_tokens is 1, whatever max_tokens the
\* caller sent.
C10_HighlightOneToken ==
    (handler = "contrast" /\ post.function = "highlight" /\ answer.status # 400) =>
        request.max_tokens = 1

\* a highlight request sent with max_tokens above the clamp's range
C10_Witness ==
    /\ handler = "contrast" /\ post.function = "highlight"
    /\ post.max_tokens > ClampMaxTokens
    /\ answer.status = 200
    /\ request.max_tokens = 1

\* C11: every 400/401 rejection is decided before any backend interaction:
\* inference.infer is never called for a rejected request; for an accepted
\* one it is not called before the response generator starts being consumed,
\* and then at most once, with the request the handler built.
C11_RejectedBeforeBackend ==
    /\ answer.status \in {400, 401} => (infer_args = <<>> /\ backend = "none")
    /\ pc \in {"none", "created"} => (infer_args = <<>> /\ backend = "none")
    /\ Len(infer_args) <= 1
    /\ infer_args # <<>> =>
          (answer.status = 200 /\ infer_args[1]["request"] = request)

\* an accepted diff request whose generator has been started
C11_Witness ==
    /\ handler = "contrast" /\ answer.status = 200
    /\ pc = "await_next"
    /\ Len(infer_args) = 1
    /\ infer_args[1]["stream"] = post.stream

\* C12: in the chunk chat_delta_streamer emits for a snapshot with choices,
\* the choices are the backend's, in the backend's order, each with a "delta"
\* and without "content"; no emitted chunk holds a "content" field.
C12_DeltaOnlyOnWire ==
    IsChat =>
        LET snaps == NonNone(recv)
        IN  /\ \A k \in 1 .. Len(snaps) :
                "choices" \in DOMAIN snaps[k] =>
                    /\ k <= Len(out)
                    /\ LET sent == ChunkChoices(out[k])
                           got == snaps[k]["choices"]
                       IN  /\ Len(sent) = Len(got)
                           /\ \A j \in 1 .. Len(got) :
                                /\ "delta" \in DOMAIN sent[j]
                                /\ sent[j]["index"] = got[j]["index"]
            /\ \A i \in 1 .. Len(out) :
                \A j \in 1 .. Len(ChunkChoices(out[i])) :
                    "content" \notin DOMAIN ChunkChoices(out[i])[j]

\* a snapshot listing index 1 before index 0, both with content, was emitted
C12_Witness ==
    /\ IsChat /\ Len(out) >= 1 /\ Len(recv) >= 1
    /\ "choices" \in DOMAIN recv[1]
    /\ Len(recv[1]["choices"]) = 2
    /\ recv[1]["choices"][1]["index"] = 1
    /\ "content" \in DOMAIN recv[1]["choices"][1]
    /\ Len(ChunkChoices(out[1])) = 2
    /\ ChunkChoices(out[1])[1] = [index |-> 1, delta |-> <<"a", "b">>]

\* C13 as stated: a non-streaming inference_streamer whose backend sequence
\* ended without a snapshot that is not None has emitted no chunk at all.
C13_NoChunkAtAll ==
    (IsPlain /\ ~request.stream /\ NaturalEnd /\ NonNone(recv) = <<>>) =>
        out = <<>>

\* C13 as amended: a non-streaming inference_streamer whose backend sequence
\* ended without a snapshot that is not None has emitted exactly one chunk, the
\* empty string: no serialization, no "data: " prefix, no terminal marker.
C13_OneEmptyChunk ==
    (IsPlain /\ ~request.stream /\ NaturalEnd /\ NonNone(recv) = <<>>) =>
        out = << <<>> >>

\* the backend delivered two None and ended; the response is finished
C13_Witness ==
    /\ IsPlain /\ ~request.stream /\ NaturalEnd
    /\ Len(recv) = 2 /\ NonNone(recv) = <<>>
    /\ pc = "done" /\ outcome = "returned"
    /\ Len(out) = 1 /\ Len(out[1]) = 0

Loaded == inference.model_name # "<None>"

\* the caller names a model that is neither the wildcard nor the loaded one
Mismatching ==
    /\ post.model \notin {"", "CONTRASTcode"}
    /\ post.model # inference.model_name

\* C14 as stated: the readiness checks run in the order model loaded, model
\* name, model dictionary, chat capability; so a request naming a mismatching
\* model is rejected with the model mismatch whenever a model is loaded, in
\* chat mode also when chat is unavailable.
C14_MismatchBeforeCapability ==
    (Called /\ answer.status # 400) =>
        /\ ~Loaded => ErrorOf(answer) = "not_ready"
        /\ (Loaded /\ Mismatching) => ErrorOf(answer) = "model_mismatch"

\* C14 as amended: the readiness checks run in the order model loaded, chat
\* capability (chat mode only), model name, model dictionary, and the first
\* one that fails decides the rejection; in chat mode a mismatching model with
\* chat unavailable is rejected for the missing chat capability.
C14_CapabilityBeforeMismatch ==
    (Called /\ answer.status # 400) =>
        LET chat_ok == handler = "chat" => inference.chat_is_available
        IN  /\ ~Loaded => ErrorOf(answer) = "not_ready"
            /\ (Loaded /\ ~chat_ok) => ErrorOf(answer) = "chat_unavailable"
            /\ (Loaded /\ chat_ok /\ Mismatching) =>
                  ErrorOf(answer) = "model_mismatch"
            /\ ErrorOf(answer) = "unknown_model" =>
                  (Loaded /\ chat_ok /\ ~Mismatching)

\* a chat request for another model while chat is unavailable and the model
\* dictionary is empty as well
C14_Witness ==
    /\ handler = "chat" /\ Loaded /\ Mismatching
    /\ ~inference.chat_is_available
    /\ DOMAIN inference.model_dict = {}
    /\ answer.status = 401
    /\ ErrorOf(answer) = "chat_unavailable"

\* C15: after every item received from the backend, a None that is skipped
\* included, a generator passes through asyncio.sleep(0) before it asks for
\* the next item: it arrives at the await for an item only from its start or
\* from asyncio.sleep(0).
C15_SleepAfterEveryItem ==
    [][(pc' = "await_next" /\ (pc # "await_next" \/ recv' # recv))
          => pc \in {"created", "sleep"}]_vars

NoMarker == \A i \in 1 .. Len(out) : out[i] # WireDone

\* C16 as stated: after a backend error that is no cancellation the generator
\* has ended as after a cancellation: without a terminal marker and without
\* the error being raised to the consumer.
C16_FaultSwallowed ==
    signal = "Exception" => (pc = "done" /\ NoMarker /\ outcome # "raised")

\* C16 as amended: after a backend error that is no cancellation the generator
\* has ended without a terminal marker and without any chunk beyond those of
\* the snapshots received, but the error is not caught: it is raised to the
\* consumer.
C16_FaultPropagates ==
    signal = "Exception" =>
        /\ pc = "done"
        /\ NoMarker
        /\ Len(out) = IF IsPlain /\ ~request.stream THEN 0 ELSE Len(NonNone(recv))
        /\ outcome = "raised"

\* the backend failed after two chunks of a streaming response
C16_Witness ==
    /\ signal = "Exception" /\ backend = "failed"
    /\ Len(out) = 2 /\ NoMarker
    /\ outcome = "raised"

\* C17: once a generator has terminated on the cancellation path, whatever
\* suspension point the cancellation arrived at (the await for the next item,
\* asyncio.sleep(0), a yield), the backend sequence it was consuming is no
\* longer open.
C17_BackendReleasedOnCancel ==
    (pc = "done" /\ signal \in {"CancelledError", "GeneratorExit"}) =>
        backend # "open"

\* the part of text beyond the length of prior (empty when it is not longer)
Beyond(text, prior) == SubSeq(text, Len(prior) + 1, Len(text))

\* C19: chat_delta_streamer does not depend on the contents being
\* prefix-monotone. Whatever content is reported for an index, the delta it
\* emits is the part of that content beyond the length of the content recorded
\* before for that index (empty when the new content is not longer), and the
\* cursor state then records, for every index, the content last reported for
\* it: the new content for this index, the others' unchanged.
C19_NonMonotoneContent ==
    (IsChat /\ pc # "created") =>
        \A idx \in Indices :
            LET reported == Reported(recv, idx)
                deltas == EmittedDeltas(out, idx)
            IN  /\ Len(deltas) = Len(reported)
                /\ \A n \in 1 .. Len(reported) :
                     deltas[n] = Beyond(reported[n],
                                        IF n = 1 THEN <<>> ELSE reported[n - 1])
                /\ IF reported = <<>>
                   THEN idx \notin DOMAIN seen
                   ELSE /\ idx \in DOMAIN seen
                        /\ seen[idx] = reported[Len(reported)]

\* index 0 went from "ab" to "b" (no extension, not longer: empty delta) after
\* index 1 reported "a", which is still recorded
C19_Witness ==
    /\ IsChat /\ ~PrefixMonotone(recv)
    /\ Reported(recv, 1) = << <<"a">> >>
    /\ Reported(recv, 0) = << <<"a", "b">>, <<"b">> >>
    /\ EmittedDeltas(out, 0) = << <<"a", "b">>, <<>> >>
    /\ 0 \in DOMAIN seen /\ seen[0] = <<"b">>
    /\ 1 \in DOMAIN seen /\ seen[1] = <<"a">>
    /\ outcome # "raised"

\* the choice a response running alone emits for ch after the items earlier
SoloChoice(ch, earlier) ==
    [index |-> ch["index"],
     delta |-> Beyond(IF "content" \in DOMAIN ch THEN ch["content"] ELSE <<>>,
                      LastOr(Reported(earlier, ch["index"]), <<>>))]

\* the chunks a response running alone emits for the items of its backend
\* sequence, with the terminal marker once the sequence has ended
SoloOutput(items, ended) ==
    LET snaps == NonNone(items)
    IN  [n \in 1 .. Len(snaps) |->
            WireData([choices |->
                [k \in 1 .. Len(snaps[n]["choices"]) |->
                    SoloChoice(snaps[n]["choices"][k], SubSeq(snaps, 1, n - 1))]])]
        \o (IF ended THEN <<WireDone>> ELSE <<>>)

\* C18: the delta cursor state is private to one response. With several
\* chat_delta_streamer calls running side by side, in any interleaving of
\* their steps, the chunks each call has emitted are the ones it would have
\* emitted running alone on its own backend sequence, and a call that has
\* received nothing yet has an empty cursor state, whatever ran before it.
C18_PrivateCursor ==
    \A t \in Streams :
        LET s == streams[t]
        IN  s.pc # "none" =>
              /\ s.out = SoloOutput(s.recv, s.pc \in {"yield_final", "done"})
              /\ s.recv = <<>> => s.seen = EmptyDict

\* both calls are under way; the second received "ab" for index 0 after the
\* first had recorded "a" and "ab" for it, and still emitted the whole "ab"
C18_Witness ==
    /\ streams[1].pc = "yield_data" /\ streams[2].pc = "yield_data"
    /\ Reported(streams[1].recv, 0) = << <<"a">>, <<"a", "b">> >>
    /\ streams[1].seen = (0 :> <<"a", "b">>)
    /\ streams[2].recv = << [choices |-> <<[index |-> 0, content |-> <<"a", "b">>]>>] >>
    /\ streams[2].out = << WireData([choices |-> <<[index |-> 0, delta |-> <<"a", "b">>]>>]) >>

====
